---- MODULE Spec2Model ----
(***************************************************************************)
(* FieldDataProcessor (field_data_proccessor.py) and the ingestion helpers *)
(* it calls (data_ingestion.py), as a state machine.                       *)
(*                                                                         *)
(* A DataFrame is a sequence of columns, each a record [name, data] with   *)
(* data the column's cells from the first row to the last.  Cells are      *)
(* integers: elevations, field ids, and codes for the categorical values   *)
(* (a dict lookup works on any hashable cell).  NaN is the missing cell a  *)
(* left merge writes.  self.df is None or a DataFrame.                     *)
(*                                                                         *)
(* pandas is modelled by its documented behaviour: rename(columns=m)       *)
(* ignores the keys of m that are no column, drop(columns=c) raises        *)
(* KeyError when c is no column, df[c] raises KeyError when c is no        *)
(* column, merge(how='left') keeps the left rows in order and repeats a    *)
(* left row once per matching right row.                                   *)
(***************************************************************************)
EXTENDS Integers, Sequences, FiniteSets, TLC

VARIABLES
    columns_to_rename,  \* config: the dict as its sequence of <<key, value>> items
    values_to_rename,   \* config: the dict as a function
    df,                 \* self.df
    engine,             \* self.engine
    pc,                 \* "idle", or the statement of process() that runs next
    stages,             \* the statements of process() completed in its current run
    applied,            \* the set of stages that completed on the table df holds
    call                \* the most recent call of a public method and its result

vars == <<columns_to_rename, values_to_rename, df, engine, pc, stages, applied, call>>

config == <<columns_to_rename, values_to_rename>>

----------------------------------------------------------------------------
(* Bounds of the model *)

MaxRows == 1        \* rows a query returns; field ids range over 1..MaxRows
MaxMapRows == 2     \* rows of the weather mapping CSV

----------------------------------------------------------------------------
(* DataFrames *)

NaN == -1000

None == [isNone |-> TRUE, columns |-> << >>]

DataFrame(cols) == [isNone |-> FALSE, columns |-> cols]

Names(cols) == {cols[i].name : i \in DOMAIN cols}

NameSeq(cols) == [i \in DOMAIN cols |-> cols[i].name]

HasColumn(cols, n) == n \in Names(cols)

Data(cols, n) == cols[CHOOSE i \in DOMAIN cols : cols[i].name = n].data

NRows(cols) == IF cols = << >> THEN 0 ELSE Len(cols[1].data)

\* DataFrame.empty: an axis of length 0
IsEmpty(cols) == cols = << >> \/ NRows(cols) = 0

Ok(frame) == [df |-> frame, exc |-> "none"]

Raise(frame, e) == [df |-> frame, exc |-> e]

\* a dict display {k1: v1, k2: v2}: the later item wins on equal keys
Dict2(k1, v1, k2, v2) == (k2 :> v2) @@ (k1 :> v1)

\* DataFrame.rename(columns=mapper), errors='ignore'
Rename(cols, mapper) ==
    [i \in DOMAIN cols |->
        [cols[i] EXCEPT !.name = IF @ \in DOMAIN mapper THEN mapper[@] ELSE @]]

\* df[n] = data for a column n that exists
SetColumn(cols, n, data) ==
    [i \in DOMAIN cols |->
        IF cols[i].name = n THEN [cols[i] EXCEPT !.data = data] ELSE cols[i]]

\* mutant: the magnitude is not taken
Abs_identity(v) == v

\* Series.abs()
Abs(v) == IF v = NaN THEN NaN ELSE IF v < 0 THEN -v ELSE v

----------------------------------------------------------------------------
(* data_ingestion.py *)

\* create_db_engine: the engine, or the error of the failed connection
CreateDbEngine(source) ==
    IF source.kind = "unreachable"
    THEN [engine |-> "None", exc |-> "OperationalError"]
    ELSE [engine |-> "engine", exc |-> "none"]

\* query_data: the query's table, ValueError on an empty one
QueryData(source) ==
    IF source.kind = "bad_query" THEN Raise(None, "DatabaseError")
    ELSE IF IsEmpty(source.table) THEN Raise(None, "ValueError")
    ELSE Ok(DataFrame(source.table))

\* mutant: an empty table is refused, as query_data refuses one
ReadFromWebCSV_strict(resource) ==
    IF resource.kind = "no_columns" THEN Raise(None, "EmptyDataError")
    ELSE IF resource.kind = "unreachable" THEN Raise(None, "URLError")
    ELSE IF IsEmpty(resource.table) THEN Raise(None, "EmptyDataError")
    ELSE Ok(DataFrame(resource.table))

\* read_from_web_CSV: whatever pd.read_csv parses, its errors re-raised
ReadFromWebCSV(resource) ==
    IF resource.kind = "no_columns" THEN Raise(None, "EmptyDataError")
    ELSE IF resource.kind = "unreachable" THEN Raise(None, "URLError")
    ELSE Ok(DataFrame(resource.table))

----------------------------------------------------------------------------
(* FieldDataProcessor.ingest_sql_data *)

IngestSqlData(frame, eng, source) ==
    LET e == CreateDbEngine(source)
        q == QueryData(source)
    IN  IF e.exc # "none" THEN [df |-> frame, engine |-> eng, exc |-> e.exc]
        ELSE IF q.exc # "none" THEN [df |-> frame, engine |-> e.engine, exc |-> q.exc]
        ELSE [df |-> q.df, engine |-> e.engine, exc |-> "none"]

----------------------------------------------------------------------------
(* FieldDataProcessor.rename_columns *)

\* mutant: the placeholder is not made unique
TempName_fixed(temp_name, names) == temp_name

RECURSIVE TempName(_, _)
TempName(temp_name, names) ==
    IF temp_name \in names THEN TempName(temp_name \o "_", names) ELSE temp_name

RenameColumns(frame, ctr) ==
    IF frame.isNone THEN Raise(frame, "AttributeError")
    ELSE
        LET column1 == ctr[1][1]
            column2 == ctr[1][2]
            temp_name == TempName("__temp_name_for_swap__", Names(frame.columns))
            first == Rename(frame.columns,
                            Dict2(column1, temp_name, column2, column1))
            second == Rename(first, temp_name :> column2)
        IN  Ok(DataFrame(second))

----------------------------------------------------------------------------
(* FieldDataProcessor.apply_corrections *)

\* mutant: values_to_rename.get(crop), no default
Canonical_nodefault(vtr, crop) == IF crop \in DOMAIN vtr THEN vtr[crop] ELSE NaN

\* values_to_rename.get(crop, crop)
Canonical(vtr, crop) == IF crop \in DOMAIN vtr THEN vtr[crop] ELSE crop

\* Series.abs() on a whole column
AbsColumn(data) == [k \in DOMAIN data |-> Abs(data[k])]

\* Series.apply(lambda crop: ...) on a whole column
CanonicalColumn(vtr, data) == [k \in DOMAIN data |-> Canonical(vtr, data[k])]

ApplyCorrections(frame, vtr) ==
    IF frame.isNone THEN Raise(frame, "TypeError")
    ELSE IF ~HasColumn(frame.columns, "Elevation") THEN Raise(frame, "KeyError")
    ELSE
        LET absd == SetColumn(frame.columns, "Elevation",
                              AbsColumn(Data(frame.columns, "Elevation")))
        IN  IF ~HasColumn(absd, "Crop_type") THEN Raise(DataFrame(absd), "KeyError")
            ELSE Ok(DataFrame(SetColumn(absd, "Crop_type",
                                        CanonicalColumn(vtr, Data(absd, "Crop_type")))))

----------------------------------------------------------------------------
(* FieldDataProcessor.weather_station_mapping *)

\* the right rows whose key equals the key of left row i, in the right order
Matches(lk, rk, i) ==
    SelectSeq([j \in 1..Len(rk) |-> j], LAMBDA j : rk[j] = lk[i])

\* mutant: how='inner', a left row without a match is dropped
RECURSIVE JoinPairs_inner(_, _, _)
JoinPairs_inner(lk, rk, i) ==
    IF i > Len(lk) THEN << >>
    ELSE LET m == Matches(lk, rk, i)
         IN  [k \in 1..Len(m) |-> <<i, m[k]>>] \o JoinPairs_inner(lk, rk, i + 1)

\* the <<left row, right row>> pairs of the left join; right row 0 is no match
RECURSIVE JoinPairs(_, _, _)
JoinPairs(lk, rk, i) ==
    IF i > Len(lk) THEN << >>
    ELSE LET m == Matches(lk, rk, i)
         IN  (IF m = << >> THEN << <<i, 0>> >>
              ELSE [k \in 1..Len(m) |-> <<i, m[k]>>])
             \o JoinPairs(lk, rk, i + 1)

\* pd.merge(left, right, on=key, how='left'), suffixes ('_x', '_y')
Merge(left, right, key) ==
    IF ~HasColumn(left, key) \/ ~HasColumn(right, key) THEN Raise(None, "KeyError")
    ELSE
        LET overlap == (Names(left) \cap Names(right)) \ {key}
            llabels == [i \in DOMAIN left |->
                          IF left[i].name \in overlap
                          THEN left[i].name \o "_x" ELSE left[i].name]
            others == SelectSeq(right, LAMBDA c : c.name # key)
            pairs == JoinPairs(Data(left, key), Data(right, key), 1)
            lcols == [i \in DOMAIN left |->
                        [name |-> llabels[i],
                         data |-> [k \in DOMAIN pairs |-> left[i].data[pairs[k][1]]]]]
            rcols == [i \in DOMAIN others |->
                        [name |-> IF others[i].name \in overlap
                                  THEN others[i].name \o "_y" ELSE others[i].name,
                         data |-> [k \in DOMAIN pairs |->
                                     IF pairs[k][2] = 0 THEN NaN
                                     ELSE others[i].data[pairs[k][2]]]]]
        IN  Ok(DataFrame(lcols \o rcols))

\* mutant: the test of self.df against None is missing
WeatherStationMapping_unguarded(frame, resource) ==
    LET weather_map_df == ReadFromWebCSV(resource)
        merged == Merge(frame.columns, weather_map_df.df.columns, "Field_ID")
    IN  IF weather_map_df.exc # "none" THEN Raise(frame, weather_map_df.exc)
        ELSE IF merged.exc # "none" THEN Raise(frame, merged.exc)
        ELSE Ok(merged.df)

\* the method; with self.df None it does nothing and returns None
WeatherStationMapping(frame, resource) ==
    IF frame.isNone THEN Ok(frame)
    ELSE
        LET weather_map_df == ReadFromWebCSV(resource)
            merged == Merge(frame.columns, weather_map_df.df.columns, "Field_ID")
        IN  IF weather_map_df.exc # "none" THEN Raise(frame, weather_map_df.exc)
            ELSE IF merged.exc # "none" THEN Raise(frame, merged.exc)
            ELSE Ok(merged.df)

----------------------------------------------------------------------------
(* FieldDataProcessor.process, statement by statement *)

\* mutant: drop(..., errors='ignore')
DropColumn_ignore(frame, n) ==
    Ok(DataFrame(SelectSeq(frame.columns, LAMBDA c : c.name # n)))

\* self.df.drop(columns="Unnamed: 0"), errors='raise'
DropColumn(frame, n) ==
    IF ~HasColumn(frame.columns, n) THEN Raise(frame, "KeyError")
    ELSE Ok(DataFrame(SelectSeq(frame.columns, LAMBDA c : c.name # n)))

StageOrder ==
    << "ingest_sql_data", "rename_columns", "apply_corrections",
       "weather_station_mapping", "drop" >>

\* mutant: apply_corrections is left out of process()
NextStatement_skip(stage) ==
    CASE stage = "ingest_sql_data" -> "rename_columns"
      [] stage = "rename_columns" -> "weather_station_mapping"
      [] stage = "weather_station_mapping" -> "drop"
      [] OTHER -> "idle"

\* the statement after `stage` in process(); "idle" after the last one
NextStatement(stage) ==
    CASE stage = "ingest_sql_data" -> "rename_columns"
      [] stage = "rename_columns" -> "apply_corrections"
      [] stage = "apply_corrections" -> "weather_station_mapping"
      [] stage = "weather_station_mapping" -> "drop"
      [] OTHER -> "idle"

\* mutant: the statements are wrapped in try/except and the run goes on
AfterStatement_swallow(stage, exc) == NextStatement(stage)

\* an exception leaves process(); nothing in it catches one
AfterStatement(stage, exc) ==
    IF exc # "none" THEN "idle" ELSE NextStatement(stage)

----------------------------------------------------------------------------
(* The data the processor can meet *)

Elevations == {-2, 0, 1}

FieldColumns == << "Field_ID", "Elevation", "Crop_type", "Annual_yield" >>

\* the cell of row i of a source column; elev gives the elevations
SourceCell(n, i, elev) ==
    CASE n = "Field_ID" -> i
      [] n = "Elevation" -> elev[i]
      [] n = "Crop_type" -> i
      [] n = "Annual_yield" -> i + 1
      [] n = "Unnamed: 0" -> i - 1
      [] n = "__temp_name_for_swap__" -> i + 20
      [] OTHER -> i + 30

\* the table with the columns `names` (a sequence) and n rows
SourceTable(names, n, elev) ==
    [c \in DOMAIN names |->
        [name |-> names[c], data |-> [i \in 1..n |-> SourceCell(names[c], i, elev)]]]

\* what a query can return: a selection of the field columns, 0..MaxRows rows
FieldTables ==
    { SourceTable(SelectSeq(FieldColumns, LAMBDA c : c \in S), Len(elev), elev) :
        S \in SUBSET {"Field_ID", "Elevation", "Crop_type", "Annual_yield"} \ {{}},
        elev \in UNION {[1..m -> Elevations] : m \in 0..MaxRows} }

DataSources ==
    { [kind |-> "ok", table |-> t] : t \in FieldTables }
    \cup { [kind |-> k, table |-> << >>] : k \in {"unreachable", "bad_query"} }

MapColumns == << "Unnamed: 0", "Field_ID", "Weather_station" >>

\* the cell of row j of a mapping column; keys gives the field ids
MapCell(n, j, keys) ==
    CASE n = "Field_ID" -> keys[j]
      [] n = "Unnamed: 0" -> j - 1
      [] OTHER -> 10 * j

MapTable(names, keys) ==
    [c \in DOMAIN names |->
        [name |-> names[c],
         data |-> [j \in DOMAIN keys |-> MapCell(names[c], j, keys)]]]

\* what the mapping URL can hold: the station column, with or without the key
\* and the index column, 0..MaxMapRows rows
MapTables ==
    { MapTable(SelectSeq(MapColumns, LAMBDA c : c \in S \cup {"Weather_station"}), keys) :
        S \in SUBSET {"Field_ID", "Unnamed: 0"},
        keys \in UNION {[1..m -> 1..MaxRows] : m \in 0..MaxMapRows} }

WebResources ==
    { [kind |-> "csv", table |-> t] : t \in MapTables }
    \cup { [kind |-> k, table |-> << >>] : k \in {"no_columns", "unreachable"} }

\* config_params["columns_to_rename"], as items
RenameConfigs ==
    { << <<"Annual_yield", "Crop_type">>, <<"Crop_type", "Annual_yield">> >>,
      << <<"Elevation", "Annual_yield">> >> }

\* config_params["values_to_rename"]
ValueConfigs == { 2 :> 1, (1 :> 2) @@ (2 :> 3) }

----------------------------------------------------------------------------
(* The state machine *)

NoResource == [kind |-> "none", table |-> << >>]

\* call: the method, how it ended, the table and the stages it was called on,
\* and the resource weather_station_mapping read
NoCall ==
    [op |-> "__init__", status |-> "returned", exc |-> "none",
     before |-> None, pre |-> {}, resource |-> NoResource]

\* FieldDataProcessor.__init__
Init ==
    /\ columns_to_rename \in RenameConfigs
    /\ values_to_rename \in ValueConfigs
    /\ df = None
    /\ engine = "None"
    /\ pc = "idle"
    /\ stages = << >>
    /\ applied = {}
    /\ call = NoCall

Status(exc) == IF exc = "none" THEN "returned" ELSE "raised"

\* a stage method called by the user, outside process()
Direct(op, r, resource) ==
    /\ pc = "idle"
    /\ df' = r.df
    /\ applied' = IF r.exc = "none" /\ ~df.isNone THEN applied \cup {op} ELSE applied
    /\ call' = [op |-> op, status |-> Status(r.exc), exc |-> r.exc,
                before |-> df, pre |-> applied, resource |-> resource]
    /\ UNCHANGED <<config, engine, pc, stages>>

\* explored on the empty orchestrator: a later ingest replaces whatever table
\* the orchestrator holds by the same tables
ingest_sql_data ==
    /\ pc = "idle"
    /\ df.isNone
    /\ \E source \in DataSources :
        LET r == IngestSqlData(df, engine, source)
        IN  /\ df' = r.df
            /\ engine' = r.engine
            /\ applied' = IF r.exc = "none" THEN {"ingest_sql_data"} ELSE applied
            /\ call' = [op |-> "ingest_sql_data", status |-> Status(r.exc),
                        exc |-> r.exc, before |-> df, pre |-> applied,
                        resource |-> NoResource]
    /\ UNCHANGED <<config, pc, stages>>

rename_columns ==
    Direct("rename_columns", RenameColumns(df, columns_to_rename), NoResource)

apply_corrections ==
    Direct("apply_corrections", ApplyCorrections(df, values_to_rename), NoResource)

\* explored once per ingested table: a repeated merge only adds suffixed
\* copies of the station columns
weather_station_mapping ==
    /\ "weather_station_mapping" \notin applied
    /\ \E resource \in WebResources :
        Direct("weather_station_mapping", WeatherStationMapping(df, resource),
               IF df.isNone THEN NoResource ELSE resource)

\* process() is called
process ==
    /\ pc = "idle"
    /\ pc' = StageOrder[1]
    /\ stages' = << >>
    /\ call' = [op |-> "process", status |-> "running", exc |-> "none",
                before |-> None, pre |-> {}, resource |-> NoResource]
    /\ UNCHANGED <<config, df, engine, applied>>

\* one statement of process() has run with result r
Statement(stage, r, eng, resource) ==
    /\ pc = stage
    /\ df' = r.df
    /\ engine' = eng
    /\ pc' = AfterStatement(stage, r.exc)
    /\ stages' = IF r.exc = "none" THEN Append(stages, stage) ELSE stages
    /\ applied' = IF r.exc # "none" THEN applied
                  ELSE IF stage = "ingest_sql_data" THEN {stage}
                  ELSE applied \cup {stage}
    /\ call' = [call EXCEPT !.status = IF pc' # "idle" THEN "running" ELSE Status(r.exc),
                            !.exc = r.exc,
                            !.resource = resource]
    /\ UNCHANGED config

process_ingest ==
    \E source \in DataSources :
        LET r == IngestSqlData(df, engine, source)
        IN  Statement("ingest_sql_data", r, r.engine, NoResource)

process_rename ==
    Statement("rename_columns", RenameColumns(df, columns_to_rename), engine, NoResource)

process_correct ==
    Statement("apply_corrections", ApplyCorrections(df, values_to_rename), engine,
              NoResource)

process_join ==
    \E resource \in WebResources :
        Statement("weather_station_mapping", WeatherStationMapping(df, resource), engine,
                  resource)

process_drop ==
    Statement("drop", DropColumn(df, "Unnamed: 0"), engine, call.resource)

\* process(), the entry point
Next ==
    \/ process
    \/ process_ingest
    \/ process_rename
    \/ process_correct
    \/ process_join
    \/ process_drop

Spec == Init /\ [][Next]_vars

\* the stage methods called one by one, in any order
NextDirect ==
    \/ ingest_sql_data
    \/ rename_columns
    \/ apply_corrections
    \/ weather_station_mapping

SpecDirect == Init /\ [][NextDirect]_vars

----------------------------------------------------------------------------
(* rename_columns alone, on every selection of columns that may clash with *)
(* the placeholder, under every pair of configured names                   *)

SwapColumns ==
    << "Annual_yield", "Crop_type", "Elevation",
       "__temp_name_for_swap__", "__temp_name_for_swap___" >>

SwapNames == {SwapColumns[i] : i \in DOMAIN SwapColumns}

SwapTables ==
    { SourceTable(SelectSeq(SwapColumns, LAMBDA c : c \in S), MaxRows,
                  [i \in 1..MaxRows |-> -2]) :
        S \in SUBSET SwapNames \ {{}} }

Ingested(table) ==
    /\ df = DataFrame(table)
    /\ engine = "engine"
    /\ pc = "idle"
    /\ stages = << >>
    /\ applied = {"ingest_sql_data"}
    /\ call = [NoCall EXCEPT !.op = "ingest_sql_data"]

InitSwap ==
    /\ columns_to_rename \in { << <<a, b>> >> : a \in SwapNames, b \in SwapNames }
    /\ values_to_rename \in ValueConfigs
    /\ \E t \in SwapTables : Ingested(t)

NextSwap == rename_columns

SpecSwap == InitSwap /\ [][NextSwap]_vars

----------------------------------------------------------------------------
(* apply_corrections alone, under every mapping of the categorical codes   *)

MaxCrop == 3        \* categorical codes range over 1..MaxCrop

Crops == 1..MaxCrop

CropTables ==
    { << [name |-> "Elevation", data |-> [i \in DOMAIN crops |-> -2]],
         [name |-> "Crop_type", data |-> crops] >> :
        crops \in UNION {[1..m -> Crops] : m \in 1..MaxRows} }

InitCanon ==
    /\ columns_to_rename \in RenameConfigs
    /\ values_to_rename \in UNION {[K -> Crops] : K \in SUBSET Crops}
    /\ \E t \in CropTables : Ingested(t)

NextCanon == apply_corrections

SpecCanon == InitCanon /\ [][NextCanon]_vars

----------------------------------------------------------------------------
(* weather_station_mapping alone, on field tables whose ids repeat or miss *)

JoinColumns == << "Field_ID", "Annual_yield", "Unnamed: 0" >>

\* Annual_yield numbers the rows; the field ids are free
JoinTables ==
    { [c \in DOMAIN names |->
         [name |-> names[c],
          data |-> IF names[c] = "Field_ID" THEN ids
                   ELSE [i \in DOMAIN ids |-> SourceCell(names[c], i, ids)]]] :
        names \in { SelectSeq(JoinColumns, LAMBDA c : c \in S \cup {"Annual_yield"}) :
                      S \in SUBSET {"Field_ID", "Unnamed: 0"} },
        ids \in UNION {[1..m -> 1..(MaxRows + 1)] : m \in 1..(MaxRows + 1)} }

InitJoin ==
    /\ columns_to_rename \in RenameConfigs
    /\ values_to_rename \in ValueConfigs
    /\ \E t \in JoinTables : Ingested(t)

NextJoin == weather_station_mapping

SpecJoin == InitJoin /\ [][NextJoin]_vars

----------------------------------------------------------------------------
(* Properties *)

InProcess == call.op = "process"

IsPrefix(s, t) == Len(s) <= Len(t) /\ \A i \in DOMAIN s : s[i] = t[i]

Column1 == columns_to_rename[1][1]

Column2 == columns_to_rename[1][2]

Index == "Unnamed: 0"

Without(seq, n) == SelectSeq(seq, LAMBDA x : x # n)

\* C1: a run of process() executes its statements in the order ingest, rename,
\* correct, join, drop, none skipped or repeated: what has completed is always
\* a prefix of that order, the next statement is the one after the prefix,
\* and a run that returns has completed all five.
C1_StageOrder ==
    InProcess =>
        /\ IsPrefix(stages, StageOrder)
        /\ call.status = "running" => pc = StageOrder[Len(stages) + 1]
        /\ call.status # "running" => pc = "idle"
        /\ call.status = "returned" => stages = StageOrder

C1_Witness ==
    InProcess /\ call.status = "returned" /\ stages = StageOrder /\ ~df.isNone

\* C2 as stated: a run of process() that raises has executed no later stage,
\* the error has reached the caller, and the working table holds no table
\* that passed only some of the stages.
C2_NoPartialTable ==
    (InProcess /\ call.status = "raised") =>
        /\ pc = "idle"
        /\ call.exc # "none"
        /\ IsPrefix(stages, StageOrder)
        /\ (df.isNone \/ applied = {StageOrder[i] : i \in DOMAIN StageOrder})

\* C2 amended: a statement of process() that fails ends the run with its
\* error, no later statement runs, and the working table is not rolled back:
\* it stays as the completed stages left it, and apply_corrections that fails
\* on Crop_type has already replaced Elevation by its magnitudes.
C2_FailFast ==
    [][ (pc # "idle" /\ call'.exc # "none") =>
            /\ pc' = "idle"
            /\ call'.status = "raised"
            /\ stages' = stages
            /\ applied' = applied
            /\ IF pc = "apply_corrections" /\ ~df.isNone
                    /\ HasColumn(df.columns, "Elevation")
               THEN /\ NameSeq(df'.columns) = NameSeq(df.columns)
                    /\ \A n \in Names(df.columns) \ {"Elevation"} :
                         Data(df'.columns, n) = Data(df.columns, n)
                    /\ \A i \in 1..NRows(df.columns) :
                         LET v == Data(df.columns, "Elevation")[i]
                         IN  Data(df'.columns, "Elevation")[i] = IF v < 0 THEN -v ELSE v
               ELSE df' = df ]_vars

C2_Witness ==
    /\ InProcess /\ call.status = "raised"
    /\ stages = << "ingest_sql_data", "rename_columns" >>
    /\ ~df.isNone /\ HasColumn(df.columns, "Elevation")
    /\ 2 \in {Data(df.columns, "Elevation")[i] : i \in 1..NRows(df.columns)}

\* C3 as stated: rename_columns called on a table that lacks one of the two
\* configured columns raises and leaves the column names as they were.
C3_MissingColumnRaises ==
    (/\ call.op = "rename_columns"
     /\ ~call.before.isNone
     /\ ~({Column1, Column2} \subseteq Names(call.before.columns)))
    => (call.status = "raised" /\ NameSeq(df.columns) = NameSeq(call.before.columns))

\* C4: on a table holding both configured columns, rename_columns leaves
\* under name A the data of B and under B the data of A, keeps the name and
\* the data of every other column and the number of columns, and leaves no
\* column under the placeholder name it generated.
C4_Swap ==
    (/\ call.op = "rename_columns"
     /\ ~call.before.isNone
     /\ {Column1, Column2} \subseteq Names(call.before.columns))
    => LET old == call.before.columns
           new == df.columns
       IN  /\ call.status = "returned"
           /\ Len(new) = Len(old)
           /\ Cardinality(Names(new)) = Len(new)
           /\ Names(new) = Names(old)
           /\ Data(new, Column1) = Data(old, Column2)
           /\ Data(new, Column2) = Data(old, Column1)
           /\ \A i \in DOMAIN old :
                old[i].name \notin {Column1, Column2} => new[i] = old[i]
           /\ TempName("__temp_name_for_swap__", Names(old)) \notin Names(new)

C4_Witness ==
    /\ call.op = "rename_columns" /\ call.status = "returned"
    /\ Column1 # Column2
    /\ {Column1, Column2, "__temp_name_for_swap__"} \subseteq Names(call.before.columns)
    /\ "__temp_name_for_swap__" \notin {Column1, Column2}
    /\ Data(df.columns, Column1) # Data(call.before.columns, Column1)

\* the cells of a column, as a set
Cells(cols, n) == {Data(cols, n)[i] : i \in 1..NRows(cols)}

\* C5 as stated: the last statement of process() drops "Unnamed: 0" when the
\* joined table has it, keeping every other column, and when the joined table
\* has no such column process() still returns, the table unchanged.
C5_DropIfPresent ==
    [][ pc = "drop" =>
            IF HasColumn(df.columns, Index)
            THEN /\ call'.status = "returned"
                 /\ NameSeq(df'.columns) = Without(NameSeq(df.columns), Index)
                 /\ \A n \in Names(df'.columns) :
                        Data(df'.columns, n) = Data(df.columns, n)
            ELSE /\ call'.status = "returned"
                 /\ df' = df ]_vars

\* C5 amended: the last statement of process() drops "Unnamed: 0" when the
\* joined table has it, keeping every other column, and when the joined table
\* has no such column process() raises KeyError and leaves the joined table
\* as the working table.
C5_DropOrKeyError ==
    [][ pc = "drop" =>
            IF HasColumn(df.columns, Index)
            THEN /\ call'.status = "returned"
                 /\ NameSeq(df'.columns) = Without(NameSeq(df.columns), Index)
                 /\ \A n \in Names(df'.columns) :
                        Data(df'.columns, n) = Data(df.columns, n)
            ELSE /\ call'.status = "raised"
                 /\ call'.exc = "KeyError"
                 /\ df' = df ]_vars

C5_Witness ==
    /\ InProcess /\ call.status = "raised" /\ call.exc = "KeyError"
    /\ Len(stages) = 4
    /\ ~HasColumn(df.columns, Index)
    /\ HasColumn(df.columns, "Weather_station")

\* C6 as stated: when the mapping read in a run of process() has zero rows,
\* the run raises before the join: the join never completes.
C6_EmptyMappingRaises ==
    (InProcess /\ call.resource.kind = "csv" /\ NRows(call.resource.table) = 0)
    => (call.status = "raised" /\ Len(stages) = 3)

\* C6 amended: when the fetch of the mapping raises (nothing to parse, or the
\* URL cannot be read) process() raises before the join and the working table
\* stays as it was; a mapping with a header and zero rows raises nothing: with
\* Field_ID on both sides the join is performed and keeps every field row
\* once, every station cell null.
C6_EmptyMappingJoins ==
    [][ pc = "weather_station_mapping" =>
            LET r == call'.resource
                old == df.columns
                new == df'.columns
            IN  /\ r.kind \in {"no_columns", "unreachable"} =>
                    /\ call'.status = "raised"
                    /\ pc' = "idle"
                    /\ stages' = stages
                    /\ df' = df
                /\ (/\ r.kind = "csv" /\ NRows(r.table) = 0
                    /\ HasColumn(r.table, "Field_ID")
                    /\ HasColumn(old, "Field_ID")) =>
                    /\ call'.exc = "none"
                    /\ pc' = "drop"
                    /\ Len(new) = Len(old) + Len(r.table) - 1
                    /\ \A i \in DOMAIN old : new[i] = old[i]
                    /\ \A i \in DOMAIN new :
                         i > Len(old) =>
                            \A k \in DOMAIN new[i].data : new[i].data[k] = NaN ]_vars

C6_Witness ==
    /\ InProcess /\ call.resource.kind = "csv" /\ NRows(call.resource.table) = 0
    /\ "weather_station_mapping" \in applied
    /\ NRows(df.columns) > 0
    /\ Cells(df.columns, "Weather_station") = {NaN}

\* the categorical mapping sends each of its values to itself or leaves it alone
FixedRange(vtr) ==
    \A k \in DOMAIN vtr : vtr[k] \in DOMAIN vtr => vtr[vtr[k]] = vtr[k]

\* C7 as stated: under every mapping, apply_corrections called on a table it
\* has already corrected leaves the Crop_type column as it was.
C7_Idempotent ==
    (/\ call.op = "apply_corrections" /\ call.status = "returned"
     /\ "apply_corrections" \in call.pre)
    => Data(df.columns, "Crop_type") = Data(call.before.columns, "Crop_type")

\* C7 amended: under every mapping that sends none of its values to a
\* different value, apply_corrections called on a table it has already
\* corrected leaves the Crop_type column as it was.
C7_IdempotentOnFixedRange ==
    (/\ call.op = "apply_corrections" /\ call.status = "returned"
     /\ "apply_corrections" \in call.pre
     /\ FixedRange(values_to_rename))
    => Data(df.columns, "Crop_type") = Data(call.before.columns, "Crop_type")

C7_Witness ==
    /\ call.op = "apply_corrections" /\ call.status = "returned"
    /\ "apply_corrections" \in call.pre
    /\ FixedRange(values_to_rename)
    /\ \E k \in DOMAIN values_to_rename :
        /\ values_to_rename[k] # k
        /\ values_to_rename[k] \in Cells(df.columns, "Crop_type")

\* C8: the merge keeps every row of the field table: a row whose Field_ID is
\* in no mapping row appears once with a null station, a row whose Field_ID is
\* in n mapping rows appears n times, once with each of their stations; so
\* the output has at least as many rows as the field table, and more only if
\* two mapping rows share a Field_ID.
C8_LeftJoin ==
    (/\ call.op = "weather_station_mapping" /\ call.status = "returned"
     /\ ~call.before.isNone)
    => LET left == call.before.columns
           right == call.resource.table
           out == df.columns
           lk == Data(left, "Field_ID")
           rk == Data(right, "Field_ID")
           Copies(i) == {k \in 1..NRows(out) :
                           Data(out, "Annual_yield")[k] = Data(left, "Annual_yield")[i]}
           Hits(i) == {j \in DOMAIN rk : rk[j] = lk[i]}
       IN  /\ NRows(out) >= NRows(left)
           /\ \A i \in 1..NRows(left) :
                /\ \A k \in Copies(i) : Data(out, "Field_ID")[k] = lk[i]
                /\ Hits(i) = {} =>
                     /\ Cardinality(Copies(i)) = 1
                     /\ \A k \in Copies(i) : Data(out, "Weather_station")[k] = NaN
                /\ Hits(i) # {} =>
                     /\ Cardinality(Copies(i)) = Cardinality(Hits(i))
                     /\ {Data(out, "Weather_station")[k] : k \in Copies(i)}
                          = {Data(right, "Weather_station")[j] : j \in Hits(i)}
           /\ NRows(out) > NRows(left) =>
                \E j1, j2 \in DOMAIN rk : j1 # j2 /\ rk[j1] = rk[j2]

C8_Witness ==
    /\ call.op = "weather_station_mapping" /\ call.status = "returned"
    /\ ~call.before.isNone
    /\ NRows(df.columns) > NRows(call.before.columns)
    /\ NaN \in Cells(df.columns, "Weather_station")

StageMethods == {"rename_columns", "apply_corrections", "weather_station_mapping"}

\* the stages the spec requires to have completed, and no other, before a stage
Required(op) ==
    CASE op = "rename_columns" -> {"ingest_sql_data"}
      [] op = "apply_corrections" -> {"ingest_sql_data", "rename_columns"}
      [] OTHER -> {"ingest_sql_data", "rename_columns", "apply_corrections"}

\* C10 as stated: a stage method called in another state than the one it
\* requires raises and leaves the working table as it was.
C10_StageGuards ==
    (call.op \in StageMethods /\ call.pre # Required(call.op))
    => (call.status = "raised" /\ df = call.before)

\* C10 amended: the stage methods look at the table, not at the stages it has
\* passed.  On an empty orchestrator none mutates: rename_columns and
\* apply_corrections raise, weather_station_mapping returns without reading
\* the mapping.  On a table, whatever stages it has passed, rename_columns
\* returns, and weather_station_mapping leaves the table alone when it raises.
C10_NoStageGuards ==
    call.op \in StageMethods =>
        /\ call.before.isNone =>
            /\ df = call.before
            /\ applied = {}
            /\ call.resource = NoResource
            /\ call.status = "returned" <=> call.op = "weather_station_mapping"
        /\ (~call.before.isNone /\ call.op = "rename_columns") =>
            call.status = "returned"
        /\ (/\ ~call.before.isNone /\ call.op = "weather_station_mapping"
            /\ call.status = "raised") =>
            df = call.before

C10_Witness ==
    /\ call.op = "weather_station_mapping"
    /\ call.before.isNone
    /\ call.status = "returned"
====
